---- MODULE Spec2Model ----
(***************************************************************************)
(* Wheelchair rental administration: the in-memory store (MemStorage) and  *)
(* the HTTP handlers of the reservation lifecycle (server/routes.ts).      *)
(* Dates are day numbers; a Date object compares by its numeric value.     *)
(***************************************************************************)
EXTENDS Integers, FiniteSets, Sequences, TLC

\* ------------------------------------------------------------------ bounds
MaxDate == 4
MaxReservations == 2
MaxClients == 1
MaxUnitInput == 2
MaxNewWheelchairs == 1
\* The clock's resolution: instants per day (instant 0 of a day is midnight).
TicksPerDay == 2

\* --------------------------------------------------------------- constants
\* initializeData creates 15 wheelchairs, ids 1..15.
InitialWheelchairs == 15
\* A field that is missing from a request body (undefined in JavaScript).
Absent == -1
\* A date field whose text does not parse: z.coerce.date() rejects it.
NotADate == -2

Dates == 1..MaxDate
UnitInputs == 0..MaxUnitInput
ClientInputs == 1..(MaxClients + 1)
ReservationInputs == 1..MaxReservations
StatusInputs == {"active", "completed", "cancelled"}
NoStatus == "none"
NoNotes == "none"

VARIABLES
    wheelchairsData,      \* Map<number, Wheelchair>: id -> [year, rentalCount]
    clientsData,          \* Map<number, Client>: id -> [registerDate]
    reservationsData,     \* Map<number, Reservation>
    wheelchairCurrentId,
    clientCurrentId,
    reservationCurrentId,
    resp,                 \* the last HTTP response: [op, status, error]
    inserted,             \* history: reservations inserted by createReservation, per unit id
    incremented,          \* history: rental-count increments applied, per unit id
    handlers              \* the request handlers in flight (concurrent specification)

store == <<wheelchairsData, clientsData, reservationsData,
           wheelchairCurrentId, clientCurrentId, reservationCurrentId>>
history == <<inserted, incremented>>
vars == <<wheelchairsData, clientsData, reservationsData,
          wheelchairCurrentId, clientCurrentId, reservationCurrentId,
          resp, inserted, incremented, handlers>>

\* ------------------------------------------------------------ map helpers
MapSet(m, k, v) == [i \in (DOMAIN m) \cup {k} |-> IF i = k THEN v ELSE m[i]]
MapDelete(m, k) == [i \in (DOMAIN m) \ {k} |-> m[i]]
MapHas(m, k) == k \in DOMAIN m

\* ------------------------------------------------------------- responses
Response(op, status, error) == [op |-> op, status |-> status, error |-> error]
OpPostReservation == "POST /reservations"
OpPutReservation == "PUT /reservations/:id"
OpDeleteReservation == "DELETE /reservations/:id"
OpPostClient == "POST /clients"
OpPutClient == "PUT /clients/:id"
OpDeleteClient == "DELETE /clients/:id"
OpPostWheelchair == "POST /wheelchairs"
OpPutWheelchair == "PUT /wheelchairs/:id"
OpDeleteWheelchair == "DELETE /wheelchairs/:id"
OpGetAvailability == "GET /availability"
OpGetStats == "GET /stats"
ErrWheelchairGone == "Wheelchair not found (404)"
ErrClientGone == "Client not found (404)"
ErrClientNotFound == "Client not found"
ErrWheelchairNotFound == "Wheelchair not found"
ErrInvalidRange == "End date must be after start date"
ErrNotAvailable == "Wheelchair is not available for the requested dates"
ErrReservationNotFound == "Reservation not found"
ErrValidation == "validation error"
NoError == ""

\* ------------------------------------------------------ storage: queries
\* (variant: a shared boundary day is not an overlap)
OverlapsStrict(startDate, endDate, r) ==
    (startDate < r.endDate /\ endDate > r.startDate) /\ r.status = "active"

\* (variant: the status is not looked at)
OverlapsAnyStatus(startDate, endDate, r) ==
    startDate <= r.endDate /\ endDate >= r.startDate

\* The filter of checkAvailability: a reservation blocks the range
\* [startDate, endDate] when it overlaps it, both ends inclusive, and is active.
IsOverlappingActive(startDate, endDate, r) ==
    (startDate <= r.endDate /\ endDate >= r.startDate) /\ r.status = "active"

\* (variant: the reservation's own id is collected instead of its wheelchair's)
ReservedReservationIds(startDate, endDate) ==
    {j \in DOMAIN reservationsData :
        IsOverlappingActive(startDate, endDate, reservationsData[j])}

ReservedWheelchairIds(startDate, endDate) ==
    {reservationsData[i].wheelchairId :
        i \in {j \in DOMAIN reservationsData :
                 IsOverlappingActive(startDate, endDate, reservationsData[j])}}

\* checkAvailability: the ids of the stored wheelchairs not reserved in the range.
AvailableWheelchairs(startDate, endDate) ==
    {w \in DOMAIN wheelchairsData : w \notin ReservedWheelchairIds(startDate, endDate)}

\* (variant: the flag tells whether the store holds any wheelchair)
CheckAvailabilityAnyStored(startDate, endDate) ==
    [available |-> DOMAIN wheelchairsData # {},
     availableWheelchairs |-> AvailableWheelchairs(startDate, endDate)]

CheckAvailability(startDate, endDate) ==
    [available |-> AvailableWheelchairs(startDate, endDate) # {},
     availableWheelchairs |-> AvailableWheelchairs(startDate, endDate)]

\* ---------------------------------------------------------------- schemas
\* reservationSchema: clientId, wheelchairId, startDate, endDate, notes. A zod
\* object strips the keys it does not know, so a status in the body is dropped.
DateOk(d) == d \in Dates

ReservationParseOk(body) ==
    /\ body.clientId # Absent
    /\ body.wheelchairId # Absent
    /\ DateOk(body.startDate)
    /\ DateOk(body.endDate)

ReservationParse(body) ==
    [clientId |-> body.clientId, wheelchairId |-> body.wheelchairId,
     startDate |-> body.startDate, endDate |-> body.endDate, notes |-> body.notes]

\* reservationSchema.partial(): every key optional, unknown keys still stripped.
PartialParseOk(body) ==
    /\ body.startDate = Absent \/ DateOk(body.startDate)
    /\ body.endDate = Absent \/ DateOk(body.endDate)

\* (variant: the schema knows the status key and lets it through)
PartialParseKeepsStatus(body) ==
    [clientId |-> body.clientId, wheelchairId |-> body.wheelchairId,
     startDate |-> body.startDate, endDate |-> body.endDate, notes |-> body.notes,
     status |-> body.status]

PartialParse(body) ==
    [clientId |-> body.clientId, wheelchairId |-> body.wheelchairId,
     startDate |-> body.startDate, endDate |-> body.endDate, notes |-> body.notes,
     status |-> NoStatus]

\* Request bodies as the client sends them. A body may carry a status, which
\* the schema does not know.
Body(clientId, wheelchairId, startDate, endDate, notes, status) ==
    [clientId |-> clientId, wheelchairId |-> wheelchairId, startDate |-> startDate,
     endDate |-> endDate, notes |-> notes, status |-> status]

CreateBodies ==
    {Body(1, w, s, e, "", NoStatus) : w \in UnitInputs, s \in Dates, e \in Dates}
    \cup {Body(c, w, s, 2, "", NoStatus) :
            c \in ClientInputs \ {1}, w \in UnitInputs, s \in {1, 2}}
    \cup {Body(c, w, NotADate, MaxDate, "", NoStatus) : c \in ClientInputs, w \in UnitInputs}
    \cup {Body(1, w, 1, MaxDate, "", st) : w \in UnitInputs, st \in {"cancelled", "completed"}}

UpdateBodies ==
    {Body(Absent, w, s, e, NoNotes, NoStatus) :
        w \in UnitInputs \cup {Absent}, s \in Dates \cup {Absent}, e \in Dates \cup {Absent}}
    \cup {Body(Absent, w, s, Absent, NoNotes, st) :
            w \in UnitInputs \cup {Absent}, s \in {Absent, 1, MaxDate},
            st \in {"cancelled", "completed"}}
    \cup {Body(Absent, Absent, NotADate, Absent, NoNotes, NoStatus)}

\* --------------------------------------------------- storage: reservations
\* (variant: a count of 0 is taken for a missing one and never incremented)
IncrementedUnlessZero(wd, id) ==
    IF MapHas(wd, id) /\ wd[id].rentalCount # 0
    THEN MapSet(wd, id, [wd[id] EXCEPT !.rentalCount = @ + 1])
    ELSE wd

\* incrementWheelchairRentalCount
IncrementedWheelchairs(wd, id) ==
    IF MapHas(wd, id)
    THEN MapSet(wd, id, [wd[id] EXCEPT !.rentalCount = @ + 1])
    ELSE wd

\* (variant: a new reservation waits for a confirmation)
NewReservationPending(reservation) ==
    [clientId |-> reservation.clientId, wheelchairId |-> reservation.wheelchairId,
     startDate |-> reservation.startDate, endDate |-> reservation.endDate,
     notes |-> reservation.notes, status |-> "pending"]

\* createReservation: the new record, status forced to active.
NewReservation(reservation) ==
    [clientId |-> reservation.clientId, wheelchairId |-> reservation.wheelchairId,
     startDate |-> reservation.startDate, endDate |-> reservation.endDate,
     notes |-> reservation.notes, status |-> "active"]

\* (variant: the identifier is the number of stored reservations plus one)
StorageCreateReservationBySize(reservation) ==
    /\ reservationCurrentId' = Cardinality(DOMAIN reservationsData) + 2
    /\ reservationsData' =
         MapSet(reservationsData, Cardinality(DOMAIN reservationsData) + 1,
                NewReservation(reservation))
    /\ wheelchairsData' = IncrementedWheelchairs(wheelchairsData, reservation.wheelchairId)
    /\ inserted' = [inserted EXCEPT ![reservation.wheelchairId] = @ + 1]
    /\ incremented' =
         IF MapHas(wheelchairsData, reservation.wheelchairId)
         THEN [incremented EXCEPT ![reservation.wheelchairId] = @ + 1]
         ELSE incremented

StorageCreateReservation(reservation) ==
    /\ reservationCurrentId' = reservationCurrentId + 1
    /\ reservationsData' =
         MapSet(reservationsData, reservationCurrentId, NewReservation(reservation))
    /\ wheelchairsData' = IncrementedWheelchairs(wheelchairsData, reservation.wheelchairId)
    /\ inserted' = [inserted EXCEPT ![reservation.wheelchairId] = @ + 1]
    /\ incremented' =
         IF MapHas(wheelchairsData, reservation.wheelchairId)
         THEN [incremented EXCEPT ![reservation.wheelchairId] = @ + 1]
         ELSE incremented

\* updateReservation: { ...existingReservation, ...reservation }
Merged(existing, patch) ==
    [clientId |-> IF patch.clientId # Absent THEN patch.clientId ELSE existing.clientId,
     wheelchairId |->
        IF patch.wheelchairId # Absent THEN patch.wheelchairId ELSE existing.wheelchairId,
     startDate |-> IF patch.startDate # Absent THEN patch.startDate ELSE existing.startDate,
     endDate |-> IF patch.endDate # Absent THEN patch.endDate ELSE existing.endDate,
     notes |-> IF patch.notes # NoNotes THEN patch.notes ELSE existing.notes,
     status |-> IF patch.status # NoStatus THEN patch.status ELSE existing.status]

\* ------------------------------------------------- POST /reservations
\* The handler's checks in their order; NoError when the request is accepted.
\* (variant: the range is checked before the client and the wheelchair)
PostReservationErrorRangeFirst(body) ==
    IF ~ReservationParseOk(body) THEN ErrValidation
    ELSE IF body.startDate >= body.endDate THEN ErrInvalidRange
    ELSE IF ~MapHas(clientsData, body.clientId) THEN ErrClientNotFound
    ELSE IF ~MapHas(wheelchairsData, body.wheelchairId) THEN ErrWheelchairNotFound
    ELSE IF body.wheelchairId \notin
              CheckAvailability(body.startDate, body.endDate).availableWheelchairs
         THEN ErrNotAvailable
    ELSE NoError

PostReservationError(body) ==
    IF ~ReservationParseOk(body) THEN ErrValidation
    ELSE IF ~MapHas(clientsData, body.clientId) THEN ErrClientNotFound
    ELSE IF ~MapHas(wheelchairsData, body.wheelchairId) THEN ErrWheelchairNotFound
    ELSE IF body.startDate >= body.endDate THEN ErrInvalidRange
    ELSE IF body.wheelchairId \notin
              CheckAvailability(body.startDate, body.endDate).availableWheelchairs
         THEN ErrNotAvailable
    ELSE NoError

\* (variant: the identifier is taken before the checks)
PostReservationEarlyId(body) ==
    LET err == PostReservationError(body) IN
    IF err = NoError
    THEN /\ reservationCurrentId <= MaxReservations
         /\ StorageCreateReservation(ReservationParse(body))
         /\ resp' = Response(OpPostReservation, 201, NoError)
         /\ UNCHANGED <<clientsData, wheelchairCurrentId, clientCurrentId, handlers>>
    ELSE /\ reservationCurrentId <= MaxReservations
         /\ reservationCurrentId' = reservationCurrentId + 1
         /\ resp' = Response(OpPostReservation, 400, err)
         /\ UNCHANGED <<wheelchairsData, clientsData, reservationsData,
                        wheelchairCurrentId, clientCurrentId, history, handlers>>

PostReservation(body) ==
    /\ LET err == PostReservationError(body) IN
       IF err = NoError
       THEN /\ reservationCurrentId <= MaxReservations
            /\ StorageCreateReservation(ReservationParse(body))
            /\ resp' = Response(OpPostReservation, 201, NoError)
            /\ UNCHANGED <<clientsData, wheelchairCurrentId, clientCurrentId, handlers>>
       ELSE /\ resp' = Response(OpPostReservation, 400, err)
            /\ UNCHANGED <<store, history, handlers>>

\* -------------------------------------------------- PUT /reservations/:id
\* JavaScript truthiness of an optional number: undefined and 0 are falsy.
Truthy(n) == n # Absent /\ n # 0

\* A parsed date is a Date object, truthy whenever the key is present.
NeedsAvailabilityCheck(patch) ==
    /\ (patch.startDate # Absent \/ patch.endDate # Absent \/ Truthy(patch.wheelchairId))
    /\ ~(patch.status = "cancelled")

EffectiveStart(patch, existing) ==
    IF patch.startDate # Absent THEN patch.startDate ELSE existing.startDate
EffectiveEnd(patch, existing) ==
    IF patch.endDate # Absent THEN patch.endDate ELSE existing.endDate
EffectiveWheelchair(patch, existing) ==
    IF Truthy(patch.wheelchairId) THEN patch.wheelchairId ELSE existing.wheelchairId

\* (variant: the reservation being edited is not left out)
OverlappingReservationsWithSelf(id, wheelchairId, startDate, endDate) ==
    {i \in DOMAIN reservationsData :
        /\ reservationsData[i].wheelchairId = wheelchairId
        /\ reservationsData[i].status = "active"
        /\ reservationsData[i].startDate <= endDate
        /\ reservationsData[i].endDate >= startDate}

\* The other active reservations of the wheelchair that overlap the range.
OverlappingReservations(id, wheelchairId, startDate, endDate) ==
    {i \in DOMAIN reservationsData :
        /\ i # id
        /\ reservationsData[i].wheelchairId = wheelchairId
        /\ reservationsData[i].status = "active"
        /\ reservationsData[i].startDate <= endDate
        /\ reservationsData[i].endDate >= startDate}

\* storage.updateReservation answers undefined for an unknown id (404).
UpdateReservationError(id) ==
    IF ~MapHas(reservationsData, id) THEN ErrReservationNotFound ELSE NoError

\* (variant: every patch is re-validated, against the list of checkAvailability)
PutReservationErrorAlwaysChecks(id, body) ==
    IF ~PartialParseOk(body) THEN ErrValidation
    ELSE LET patch == PartialParse(body) IN
         IF ~MapHas(reservationsData, id) THEN ErrReservationNotFound
         ELSE LET existing == reservationsData[id]
                  startDate == EffectiveStart(patch, existing)
                  endDate == EffectiveEnd(patch, existing)
                  wheelchairId == EffectiveWheelchair(patch, existing)
              IN IF startDate >= endDate THEN ErrInvalidRange
                 ELSE IF wheelchairId \notin
                            CheckAvailability(startDate, endDate).availableWheelchairs
                      THEN ErrNotAvailable
                 ELSE NoError

PutReservationError(id, body) ==
    IF ~PartialParseOk(body) THEN ErrValidation
    ELSE LET patch == PartialParse(body) IN
         IF NeedsAvailabilityCheck(patch)
         THEN IF ~MapHas(reservationsData, id) THEN ErrReservationNotFound
              ELSE LET existing == reservationsData[id]
                       startDate == EffectiveStart(patch, existing)
                       endDate == EffectiveEnd(patch, existing)
                       wheelchairId == EffectiveWheelchair(patch, existing)
                   IN IF startDate >= endDate THEN ErrInvalidRange
                      ELSE IF OverlappingReservations(id, wheelchairId, startDate, endDate) # {}
                           THEN ErrNotAvailable
                      ELSE UpdateReservationError(id)
         ELSE UpdateReservationError(id)

\* (variant: an update that names a wheelchair counts as a rental of it)
PutReservationRecount(id, body) ==
    /\ LET err == PutReservationError(id, body) IN
       IF err = NoError
       THEN /\ reservationsData' =
                 MapSet(reservationsData, id, Merged(reservationsData[id], PartialParse(body)))
            /\ wheelchairsData' = IncrementedWheelchairs(wheelchairsData, body.wheelchairId)
            /\ resp' = Response(OpPutReservation, 200, NoError)
       ELSE /\ resp' = Response(OpPutReservation,
                                IF err = ErrReservationNotFound THEN 404 ELSE 400, err)
            /\ UNCHANGED <<reservationsData, wheelchairsData>>
    /\ UNCHANGED <<clientsData, wheelchairCurrentId, clientCurrentId,
                   reservationCurrentId, history, handlers>>

PutReservation(id, body) ==
    /\ LET err == PutReservationError(id, body) IN
       IF err = NoError
       THEN /\ reservationsData' =
                 MapSet(reservationsData, id, Merged(reservationsData[id], PartialParse(body)))
            /\ resp' = Response(OpPutReservation, 200, NoError)
       ELSE /\ resp' = Response(OpPutReservation,
                                IF err = ErrReservationNotFound THEN 404 ELSE 400, err)
            /\ UNCHANGED reservationsData
    /\ UNCHANGED <<wheelchairsData, clientsData, wheelchairCurrentId, clientCurrentId,
                   reservationCurrentId, history, handlers>>

\* ----------------------------------------------- DELETE /reservations/:id
\* (variant: the answer of storage.deleteReservation is not looked at)
DeleteReservationAlwaysOk(id) ==
    /\ reservationsData' = MapDelete(reservationsData, id)
    /\ resp' = Response(OpDeleteReservation, 204, NoError)
    /\ UNCHANGED <<wheelchairsData, clientsData, wheelchairCurrentId, clientCurrentId,
                   reservationCurrentId, history, handlers>>

\* (variant: a reservation that is still active is not removed)
DeleteReservationUnlessActive(id) ==
    /\ reservationsData' =
         IF MapHas(reservationsData, id) /\ reservationsData[id].status = "active"
         THEN reservationsData
         ELSE MapDelete(reservationsData, id)
    /\ resp' = IF ~MapHas(reservationsData, id)
               THEN Response(OpDeleteReservation, 404, ErrReservationNotFound)
               ELSE IF reservationsData[id].status = "active"
               THEN Response(OpDeleteReservation, 400, ErrNotAvailable)
               ELSE Response(OpDeleteReservation, 204, NoError)
    /\ UNCHANGED <<wheelchairsData, clientsData, wheelchairCurrentId, clientCurrentId,
                   reservationCurrentId, history, handlers>>

DeleteReservation(id) ==
    /\ reservationsData' = MapDelete(reservationsData, id)
    /\ resp' = IF MapHas(reservationsData, id)
               THEN Response(OpDeleteReservation, 204, NoError)
               ELSE Response(OpDeleteReservation, 404, ErrReservationNotFound)
    /\ UNCHANGED <<wheelchairsData, clientsData, wheelchairCurrentId, clientCurrentId,
                   reservationCurrentId, history, handlers>>

\* ------------------------------------------------------------- clients
ClientBodies == [registerDate : {1}]

PostClient(body) ==
    /\ clientCurrentId <= MaxClients
    /\ clientCurrentId' = clientCurrentId + 1
    /\ clientsData' = MapSet(clientsData, clientCurrentId, [registerDate |-> body.registerDate])
    /\ resp' = Response(OpPostClient, 201, NoError)
    /\ UNCHANGED <<wheelchairsData, reservationsData, wheelchairCurrentId,
                   reservationCurrentId, history, handlers>>

\* clientSchema.partial(): registerDate is a key of the schema, so a patch may
\* carry it; phone (here its length) must have 6 characters or more.
MinPhone == 6
ClientPatchBodies == [registerDate : {Absent, 1, 2}, phone : {Absent, MinPhone - 1, MinPhone}]

ClientPartialParseOk(body) == body.phone = Absent \/ body.phone >= MinPhone

\* updateClient: { ...existingClient, ...client }
MergedClient(existing, patch) ==
    [registerDate |->
        IF patch.registerDate # Absent THEN patch.registerDate ELSE existing.registerDate]

PutClient(id, body) ==
    /\ IF ~ClientPartialParseOk(body)
       THEN /\ resp' = Response(OpPutClient, 400, ErrValidation)
            /\ UNCHANGED clientsData
       ELSE IF MapHas(clientsData, id)
       THEN /\ clientsData' = MapSet(clientsData, id, MergedClient(clientsData[id], body))
            /\ resp' = Response(OpPutClient, 200, NoError)
       ELSE /\ resp' = Response(OpPutClient, 404, ErrClientGone)
            /\ UNCHANGED clientsData
    /\ UNCHANGED <<wheelchairsData, reservationsData, wheelchairCurrentId,
                   clientCurrentId, reservationCurrentId, history, handlers>>

DeleteClient(id) ==
    /\ clientsData' = MapDelete(clientsData, id)
    /\ resp' = IF MapHas(clientsData, id)
               THEN Response(OpDeleteClient, 204, NoError)
               ELSE Response(OpDeleteClient, 404, ErrClientGone)
    /\ UNCHANGED <<wheelchairsData, reservationsData, wheelchairCurrentId,
                   clientCurrentId, reservationCurrentId, history, handlers>>

\* ---------------------------------------------------------- wheelchairs
\* The years of the 15 wheelchairs of initializeData, in order.
InitialYears ==
    <<2022, 2021, 2023, 2022, 2021, 2023, 2022, 2021, 2023, 2022, 2021, 2023, 2022, 2021, 2023>>

\* wheelchairSchema: year is a number from 2000 on; a rentalCount in the body is
\* not a key of the schema and is stripped.
MinYear == 2000
WheelchairBodies == [year : {MinYear - 1, MinYear}, rentalCount : {Absent, 0}]
WheelchairPatchBodies == [year : {Absent, MinYear - 1, MinYear}, rentalCount : {Absent, 0}]

WheelchairParseOk(body) == body.year >= MinYear
WheelchairPartialParseOk(body) == body.year = Absent \/ body.year >= MinYear
WheelchairParse(body) == [year |-> body.year]

\* createWheelchair: { ...wheelchair, id, rentalCount: 0 }
NewWheelchair(wheelchair) == [year |-> wheelchair.year, rentalCount |-> 0]

\* updateWheelchair: { ...existingWheelchair, ...wheelchair }
MergedWheelchair(existing, patch) ==
    [year |-> IF patch.year # Absent THEN patch.year ELSE existing.year,
     rentalCount |-> existing.rentalCount]

PostWheelchair(body) ==
    /\ IF WheelchairParseOk(body)
       THEN /\ wheelchairCurrentId <= InitialWheelchairs + MaxNewWheelchairs
            /\ wheelchairCurrentId' = wheelchairCurrentId + 1
            /\ wheelchairsData' =
                 MapSet(wheelchairsData, wheelchairCurrentId,
                        NewWheelchair(WheelchairParse(body)))
            /\ resp' = Response(OpPostWheelchair, 201, NoError)
       ELSE /\ resp' = Response(OpPostWheelchair, 400, ErrValidation)
            /\ UNCHANGED <<wheelchairsData, wheelchairCurrentId>>
    /\ UNCHANGED <<clientsData, reservationsData, clientCurrentId,
                   reservationCurrentId, history, handlers>>

PutWheelchair(id, body) ==
    /\ IF ~WheelchairPartialParseOk(body)
       THEN /\ resp' = Response(OpPutWheelchair, 400, ErrValidation)
            /\ UNCHANGED wheelchairsData
       ELSE IF MapHas(wheelchairsData, id)
       THEN /\ wheelchairsData' =
                 MapSet(wheelchairsData, id,
                        MergedWheelchair(wheelchairsData[id], WheelchairParse(body)))
            /\ resp' = Response(OpPutWheelchair, 200, NoError)
       ELSE /\ resp' = Response(OpPutWheelchair, 404, ErrWheelchairGone)
            /\ UNCHANGED wheelchairsData
    /\ UNCHANGED <<clientsData, reservationsData, wheelchairCurrentId, clientCurrentId,
                   reservationCurrentId, history, handlers>>

DeleteWheelchair(id) ==
    /\ wheelchairsData' = MapDelete(wheelchairsData, id)
    /\ resp' = IF MapHas(wheelchairsData, id)
               THEN Response(OpDeleteWheelchair, 204, NoError)
               ELSE Response(OpDeleteWheelchair, 404, ErrWheelchairGone)
    /\ UNCHANGED <<clientsData, reservationsData, wheelchairCurrentId, clientCurrentId,
                   reservationCurrentId, history, handlers>>

\* --------------------------------------------------------- GET /availability
GetAvailability(startDate, endDate) ==
    /\ resp' = IF startDate >= endDate
               THEN Response(OpGetAvailability, 400, ErrInvalidRange)
               ELSE Response(OpGetAvailability, 200, NoError)
    /\ UNCHANGED <<store, history, handlers>>

\* --------------------------------------------------------------- GET /stats
\* A stored date is the midnight of its day; `new Date()` is any instant.
Instant(date) == date * TicksPerDay
Nows == {Instant(d) + t : d \in Dates, t \in 0..(TicksPerDay - 1)}

\* (variant: one unit is taken off per reservation, not per reserved unit)
GetDashboardStatsPerReservation(now) ==
    LET activeReservations ==
            {i \in DOMAIN reservationsData :
                /\ reservationsData[i].status = "active"
                /\ Instant(reservationsData[i].endDate) >= now}
        totalWheelchairs == Cardinality(DOMAIN wheelchairsData)
    IN [availableWheelchairs |-> totalWheelchairs - Cardinality(activeReservations),
        totalWheelchairs |-> totalWheelchairs,
        activeReservations |-> Cardinality(activeReservations),
        totalClients |-> Cardinality(DOMAIN clientsData)]

\* (variant: only the reservations running at `today` take their unit off)
GetDashboardStatsCurrentOnly(now) ==
    LET activeReservations ==
            {i \in DOMAIN reservationsData :
                /\ reservationsData[i].status = "active"
                /\ Instant(reservationsData[i].endDate) >= now
                /\ Instant(reservationsData[i].startDate) <= now}
        reservedWheelchairIds == {reservationsData[i].wheelchairId : i \in activeReservations}
        totalWheelchairs == Cardinality(DOMAIN wheelchairsData)
    IN [availableWheelchairs |-> totalWheelchairs - Cardinality(reservedWheelchairIds),
        totalWheelchairs |-> totalWheelchairs,
        activeReservations |-> Cardinality(activeReservations),
        totalClients |-> Cardinality(DOMAIN clientsData)]

\* getDashboardStats, with `today` the instant of the call.
GetDashboardStats(now) ==
    LET activeReservations ==
            {i \in DOMAIN reservationsData :
                /\ reservationsData[i].status = "active"
                /\ Instant(reservationsData[i].endDate) >= now}
        reservedWheelchairIds == {reservationsData[i].wheelchairId : i \in activeReservations}
        totalWheelchairs == Cardinality(DOMAIN wheelchairsData)
    IN [availableWheelchairs |-> totalWheelchairs - Cardinality(reservedWheelchairIds),
        totalWheelchairs |-> totalWheelchairs,
        activeReservations |-> Cardinality(activeReservations),
        totalClients |-> Cardinality(DOMAIN clientsData)]

\* checkAvailability called with two instants (Date objects with a time of day):
\* the stored units that no active reservation overlapping [start, end] refers to,
\* a reservation's dates being the midnights of its days.
AvailableWheelchairsAt(startInstant, endInstant) ==
    LET overlappingReservations ==
            {i \in DOMAIN reservationsData :
                /\ startInstant <= Instant(reservationsData[i].endDate)
                /\ endInstant >= Instant(reservationsData[i].startDate)
                /\ reservationsData[i].status = "active"}
        reservedWheelchairIds ==
            {reservationsData[i].wheelchairId : i \in overlappingReservations}
    IN {w \in DOMAIN wheelchairsData : w \notin reservedWheelchairIds}

\* (variant: the reservations found expired are marked completed)
GetStatsExpiring(now) ==
    /\ reservationsData' =
         [i \in DOMAIN reservationsData |->
            IF /\ reservationsData[i].status = "active"
               /\ Instant(reservationsData[i].endDate) < now
            THEN [reservationsData[i] EXCEPT !.status = "completed"]
            ELSE reservationsData[i]]
    /\ resp' = Response(OpGetStats, 200, NoError)
    /\ UNCHANGED <<wheelchairsData, clientsData, wheelchairCurrentId, clientCurrentId,
                   reservationCurrentId, history, handlers>>

GetStats(now) ==
    /\ resp' = Response(OpGetStats, 200, NoError)
    /\ UNCHANGED <<store, history, handlers>>

\* ------------------------------------------------------------------ Init
Handlers == {1, 2}
NoBody == Body(Absent, Absent, Absent, Absent, NoNotes, NoStatus)
IdleHandler == [pc |-> "idle", body |-> NoBody, found |-> FALSE, available |-> {}]

Init ==
    /\ wheelchairsData =
         [i \in 1..InitialWheelchairs |-> [year |-> InitialYears[i], rentalCount |-> 0]]
    /\ clientsData = << >>
    /\ reservationsData = << >>
    /\ wheelchairCurrentId = InitialWheelchairs + 1
    /\ clientCurrentId = 1
    /\ reservationCurrentId = 1
    /\ resp = Response("", 0, NoError)
    /\ inserted = [u \in UnitInputs |-> 0]
    /\ incremented = [u \in UnitInputs |-> 0]
    /\ handlers = [h \in Handlers |-> IdleHandler]

\* The reservation lifecycle: requests are handled one at a time.
Next ==
    \/ \E body \in CreateBodies : PostReservation(body)
    \/ \E id \in ReservationInputs, body \in UpdateBodies : PutReservation(id, body)
    \/ \E id \in ReservationInputs : DeleteReservation(id)
    \/ \E body \in ClientBodies : PostClient(body)
    \/ \E startDate \in Dates, endDate \in Dates : GetAvailability(startDate, endDate)
    \/ \E now \in Nows : GetStats(now)

Spec == Init /\ [][Next]_vars

\* Every operation of the store, with fewer reservation requests: creations on
\* the existing units 1 and 2, patches of the unit, of the status and of the notes.
SmallCreateBodies ==
    {Body(c, w, s, MaxDate, "", NoStatus) : c \in ClientInputs, w \in {1, 2}, s \in {1, MaxDate}}

SmallUpdateBodies ==
    {Body(Absent, w, Absent, Absent, NoNotes, st) :
        w \in UnitInputs \cup {Absent}, st \in {NoStatus, "cancelled"}}
    \cup {Body(Absent, Absent, Absent, Absent, "n", NoStatus)}

NextAll ==
    \/ \E body \in SmallCreateBodies : PostReservation(body)
    \/ \E id \in ReservationInputs, body \in SmallUpdateBodies : PutReservation(id, body)
    \/ \E id \in ReservationInputs : DeleteReservation(id)
    \/ \E body \in ClientBodies : PostClient(body)
    \/ \E id \in ClientInputs, body \in ClientPatchBodies : PutClient(id, body)
    \/ \E id \in ClientInputs : DeleteClient(id)
    \/ \E body \in WheelchairBodies : PostWheelchair(body)
    \/ \E id \in {1, InitialWheelchairs + 1}, body \in WheelchairPatchBodies :
          PutWheelchair(id, body)
    \/ \E id \in {2, InitialWheelchairs + 1} : DeleteWheelchair(id)
    \/ \E startDate \in Dates, endDate \in Dates : GetAvailability(startDate, endDate)
    \/ \E now \in Nows : GetStats(now)

SpecAll == Init /\ [][NextAll]_vars

\* ------------------------------------- POST /reservations, await by await
\* Two requests in flight. A handler runs from one await to the next without
\* interruption; the storage call of an await is evaluated before the handler
\* yields, and its result is what the handler continues with.
Reply(h, response) ==
    /\ resp' = response
    /\ handlers' = [handlers EXCEPT ![h] = IdleHandler]

\* validateBody, then `await storage.getClient(req.body.clientId)`
PostStart(h, body) ==
    /\ handlers[h].pc = "idle"
    /\ IF ~ReservationParseOk(body)
       THEN Reply(h, Response(OpPostReservation, 400, ErrValidation))
       ELSE /\ handlers' = [handlers EXCEPT ![h] =
                   [pc |-> "getClient", body |-> body,
                    found |-> MapHas(clientsData, body.clientId), available |-> {}]]
            /\ UNCHANGED resp
    /\ UNCHANGED <<store, history>>

\* `if (!client)`, then `await storage.getWheelchair(req.body.wheelchairId)`
PostAfterGetClient(h) ==
    /\ handlers[h].pc = "getClient"
    /\ IF ~handlers[h].found
       THEN Reply(h, Response(OpPostReservation, 400, ErrClientNotFound))
       ELSE /\ handlers' = [handlers EXCEPT ![h].pc = "getWheelchair",
                                             ![h].found =
                                                MapHas(wheelchairsData, handlers[h].body.wheelchairId)]
            /\ UNCHANGED resp
    /\ UNCHANGED <<store, history>>

\* `if (!wheelchair)`, the range check, then `await storage.checkAvailability(...)`
PostAfterGetWheelchair(h) ==
    /\ handlers[h].pc = "getWheelchair"
    /\ LET body == handlers[h].body IN
       IF ~handlers[h].found
       THEN Reply(h, Response(OpPostReservation, 400, ErrWheelchairNotFound))
       ELSE IF body.startDate >= body.endDate
       THEN Reply(h, Response(OpPostReservation, 400, ErrInvalidRange))
       ELSE /\ handlers' = [handlers EXCEPT ![h].pc = "checkAvailability",
                                             ![h].available =
                                                CheckAvailability(body.startDate, body.endDate)
                                                   .availableWheelchairs]
            /\ UNCHANGED resp
    /\ UNCHANGED <<store, history>>

\* `if (!isWheelchairAvailable)`, then `await storage.createReservation(req.body)`:
\* the insert and the increment run before the handler yields.
PostAfterCheckAvailability(h) ==
    /\ handlers[h].pc = "checkAvailability"
    /\ LET body == handlers[h].body IN
       IF body.wheelchairId \notin handlers[h].available
       THEN /\ Reply(h, Response(OpPostReservation, 400, ErrNotAvailable))
            /\ UNCHANGED <<store, history>>
       ELSE /\ reservationCurrentId <= MaxReservations
            /\ StorageCreateReservation(ReservationParse(body))
            /\ handlers' = [handlers EXCEPT ![h].pc = "createReservation"]
            /\ UNCHANGED <<clientsData, wheelchairCurrentId, clientCurrentId, resp>>

\* `res.status(201).json(reservation)`
PostAfterCreateReservation(h) ==
    /\ handlers[h].pc = "createReservation"
    /\ Reply(h, Response(OpPostReservation, 201, NoError))
    /\ UNCHANGED <<store, history>>

ConcurrentBodies ==
    {Body(1, w, s, s + 1, "", NoStatus) : w \in {1, 2}, s \in {1, 2}}

NextConcurrent ==
    \/ \E h \in Handlers, body \in ConcurrentBodies : PostStart(h, body)
    \/ \E h \in Handlers : PostAfterGetClient(h)
    \/ \E h \in Handlers : PostAfterGetWheelchair(h)
    \/ \E h \in Handlers : PostAfterCheckAvailability(h)
    \/ \E h \in Handlers : PostAfterCreateReservation(h)
    \/ \E body \in ClientBodies : PostClient(body)
    \/ \E id \in {1} : DeleteWheelchair(id)
    \/ \E startDate \in Dates, endDate \in Dates : GetAvailability(startDate, endDate)

SpecConcurrent == Init /\ [][NextConcurrent]_vars

\* ------------------------------------ PUT /reservations/:id, await by await
\* The handler of an update next to the handlers of creations. The reservation
\* read by getReservation and the list read by getAllReservations are what the
\* store held when the call was made: the store replaces a record, it never
\* changes one in place.
\* validateBody, then `await storage.getReservation(id)` when the patch needs the
\* check, else `await storage.updateReservation(id, req.body)`.
PutStart(h, id, body) ==
    /\ handlers[h].pc = "idle"
    /\ IF ~PartialParseOk(body)
       THEN /\ Reply(h, Response(OpPutReservation, 400, ErrValidation))
            /\ UNCHANGED reservationsData
       ELSE IF NeedsAvailabilityCheck(PartialParse(body))
       THEN /\ handlers' = [handlers EXCEPT ![h] =
                   [pc |-> "putGetReservation", body |-> body, id |-> id,
                    found |-> MapHas(reservationsData, id), available |-> {},
                    existing |-> IF MapHas(reservationsData, id)
                                 THEN reservationsData[id] ELSE NoBody]]
            /\ UNCHANGED <<resp, reservationsData>>
       ELSE /\ handlers' = [handlers EXCEPT ![h] =
                   [pc |-> "putUpdateReservation", body |-> body, id |-> id,
                    found |-> MapHas(reservationsData, id), available |-> {},
                    existing |-> NoBody]]
            /\ reservationsData' =
                 IF MapHas(reservationsData, id)
                 THEN MapSet(reservationsData, id,
                             Merged(reservationsData[id], PartialParse(body)))
                 ELSE reservationsData
            /\ UNCHANGED resp
    /\ UNCHANGED <<wheelchairsData, clientsData, wheelchairCurrentId, clientCurrentId,
                   reservationCurrentId, history>>

\* `if (!existingReservation)`, the range check, then
\* `await storage.checkAvailability(startDate, endDate)` (its answer is not used)
PutAfterGetReservation(h) ==
    /\ handlers[h].pc = "putGetReservation"
    /\ LET patch == PartialParse(handlers[h].body)
           existing == handlers[h].existing
       IN IF ~handlers[h].found
          THEN Reply(h, Response(OpPutReservation, 404, ErrReservationNotFound))
          ELSE IF EffectiveStart(patch, existing) >= EffectiveEnd(patch, existing)
          THEN Reply(h, Response(OpPutReservation, 400, ErrInvalidRange))
          ELSE /\ handlers' = [handlers EXCEPT ![h].pc = "putCheckAvailability"]
               /\ UNCHANGED resp
    /\ UNCHANGED <<store, history>>

\* `await storage.getAllReservations()`: the list the filter will run on
PutAfterCheckAvailability(h) ==
    /\ handlers[h].pc = "putCheckAvailability"
    /\ LET patch == PartialParse(handlers[h].body)
           existing == handlers[h].existing
       IN handlers' = [handlers EXCEPT
              ![h].pc = "putGetAllReservations",
              ![h].available =
                  OverlappingReservations(handlers[h].id,
                                          EffectiveWheelchair(patch, existing),
                                          EffectiveStart(patch, existing),
                                          EffectiveEnd(patch, existing))]
    /\ UNCHANGED <<store, history, resp>>

\* `if (overlappingReservations.length > 0)`, then
\* `await storage.updateReservation(id, req.body)`: the merge runs before the
\* handler yields, on the record the store holds now.
PutAfterGetAllReservations(h) ==
    /\ handlers[h].pc = "putGetAllReservations"
    /\ IF handlers[h].available # {}
       THEN /\ Reply(h, Response(OpPutReservation, 400, ErrNotAvailable))
            /\ UNCHANGED reservationsData
       ELSE /\ handlers' = [handlers EXCEPT
                   ![h].pc = "putUpdateReservation",
                   ![h].found = MapHas(reservationsData, handlers[h].id)]
            /\ reservationsData' =
                 IF MapHas(reservationsData, handlers[h].id)
                 THEN MapSet(reservationsData, handlers[h].id,
                             Merged(reservationsData[handlers[h].id],
                                    PartialParse(handlers[h].body)))
                 ELSE reservationsData
            /\ UNCHANGED resp
    /\ UNCHANGED <<wheelchairsData, clientsData, wheelchairCurrentId, clientCurrentId,
                   reservationCurrentId, history>>

\* `if (!updatedReservation)`, else `res.json(updatedReservation)`
PutAfterUpdateReservation(h) ==
    /\ handlers[h].pc = "putUpdateReservation"
    /\ IF handlers[h].found
       THEN Reply(h, Response(OpPutReservation, 200, NoError))
       ELSE Reply(h, Response(OpPutReservation, 404, ErrReservationNotFound))
    /\ UNCHANGED <<store, history>>

ConcurrentCreateBodies == {Body(1, w, 1, 2, "", NoStatus) : w \in {1, 2}}

ConcurrentUpdateBodies ==
    {Body(Absent, w, Absent, Absent, NoNotes, NoStatus) : w \in {1, 2}}
    \cup {Body(Absent, Absent, Absent, Absent, "n", NoStatus)}

\* Creations arrive one at a time, on the first handler: an overlap of two
\* reservations of a unit then needs an update among the two requests in flight.
NextConcurrentUpdate ==
    \/ \E body \in ConcurrentCreateBodies : PostStart(1, body)
    \/ \E h \in Handlers : PostAfterGetClient(h)
    \/ \E h \in Handlers : PostAfterGetWheelchair(h)
    \/ \E h \in Handlers : PostAfterCheckAvailability(h)
    \/ \E h \in Handlers : PostAfterCreateReservation(h)
    \/ \E h \in Handlers, id \in ReservationInputs, body \in ConcurrentUpdateBodies :
          PutStart(h, id, body)
    \/ \E h \in Handlers : PutAfterGetReservation(h)
    \/ \E h \in Handlers : PutAfterCheckAvailability(h)
    \/ \E h \in Handlers : PutAfterGetAllReservations(h)
    \/ \E h \in Handlers : PutAfterUpdateReservation(h)
    \/ \E body \in ClientBodies : PostClient(body)

SpecConcurrentUpdate == Init /\ [][NextConcurrentUpdate]_vars

\* ------------------------------------------------- a shrinking fleet
\* The wheelchairs are deleted one after the other, the last one first, down to
\* an empty store, while units 1 and 2 get reserved.
LastWheelchairs ==
    {id \in DOMAIN wheelchairsData : \A j \in DOMAIN wheelchairsData : j <= id}

FleetCreateBodies ==
    {Body(1, w, r[1], r[2], "", NoStatus) :
        w \in {1, 2}, r \in {<<1, 2>>, <<MaxDate - 1, MaxDate>>, <<1, MaxDate>>}}

NextFleet ==
    \/ \E body \in ClientBodies : PostClient(body)
    \/ \E body \in FleetCreateBodies : PostReservation(body)
    \/ \E id \in LastWheelchairs : DeleteWheelchair(id)
    \/ \E startDate \in Dates, endDate \in Dates : GetAvailability(startDate, endDate)
    \/ \E now \in Nows : GetStats(now)

SpecFleet == Init /\ [][NextFleet]_vars

\* ----------------------------------------- the handlers over any stored data
\* The queries and the handlers as functions of the stored reservations: the
\* store starts with one reservation of any status, unit and range, as a
\* Reservation record may hold them (status is a text column).
StoredReservations ==
    {[clientId |-> 1, wheelchairId |-> w, startDate |-> s, endDate |-> e,
      notes |-> "", status |-> st] :
        w \in {1}, s \in Dates, e \in Dates, st \in StatusInputs}

InitStored ==
    /\ \E r \in {x \in StoredReservations : x.startDate < x.endDate} :
         /\ reservationsData = <<r>>
         /\ wheelchairsData =
              [i \in 1..InitialWheelchairs |->
                 [year |-> InitialYears[i],
                  rentalCount |-> IF i = r.wheelchairId THEN 1 ELSE 0]]
         /\ inserted = [u \in UnitInputs |-> IF u = r.wheelchairId THEN 1 ELSE 0]
         /\ incremented = [u \in UnitInputs |-> IF u = r.wheelchairId THEN 1 ELSE 0]
    /\ clientsData = <<[registerDate |-> 1]>>
    /\ wheelchairCurrentId = InitialWheelchairs + 1
    /\ clientCurrentId = 2
    /\ reservationCurrentId = 2
    /\ resp = Response("", 0, NoError)
    /\ handlers = [h \in Handlers |-> IdleHandler]

StoredCreateBodies ==
    {Body(1, w, s, e, "", NoStatus) : w \in {1, 2}, s \in Dates, e \in Dates}

StoredUpdateBodies ==
    {Body(Absent, w, s, e, NoNotes, NoStatus) :
        w \in {Absent, 1}, s \in Dates \cup {Absent}, e \in Dates \cup {Absent}}

NextStored ==
    \/ \E body \in StoredCreateBodies : PostReservation(body)
    \/ \E id \in ReservationInputs, body \in StoredUpdateBodies : PutReservation(id, body)
    \/ \E startDate \in Dates, endDate \in Dates : GetAvailability(startDate, endDate)

SpecStored == InitStored /\ [][NextStored]_vars

\* The same store with every request on a reservation: creations, updates whose
\* body may carry a status, removals, and the availability query.
StoredStatusBodies ==
    {Body(Absent, w, Absent, Absent, NoNotes, st) : w \in {Absent, 1}, st \in StatusInputs}

NextStoredAll ==
    \/ \E body \in StoredCreateBodies : PostReservation(body)
    \/ \E id \in ReservationInputs, body \in StoredUpdateBodies \cup StoredStatusBodies :
          PutReservation(id, body)
    \/ \E id \in ReservationInputs : DeleteReservation(id)
    \/ \E startDate \in Dates, endDate \in Dates : GetAvailability(startDate, endDate)

SpecStoredAll == InitStored /\ [][NextStoredAll]_vars

\* Creations and updates only, no unit or client removed; the update bodies name
\* stored and unknown clients and units.
ReferenceUpdateBodies ==
    {Body(c, w, Absent, Absent, NoNotes, NoStatus) :
        c \in ClientInputs \cup {Absent}, w \in {Absent, 1, 2, InitialWheelchairs + 1}}

NextReferences ==
    \/ \E body \in ClientBodies : PostClient(body)
    \/ \E body \in FleetCreateBodies : PostReservation(body)
    \/ \E id \in ReservationInputs, body \in ReferenceUpdateBodies : PutReservation(id, body)

SpecReferences == Init /\ [][NextReferences]_vars

\* ================================================================= claims
RangesOverlap(s1, e1, s2, e2) == s1 <= e2 /\ e1 >= s2

\* C1: no double-booking. In every state reached by create and update requests
\* handled one at a time, two distinct active reservations of the same unit
\* never have overlapping date ranges (both ends inclusive).
C1_NoDoubleBooking ==
    \A i \in DOMAIN reservationsData, j \in DOMAIN reservationsData :
        (/\ i # j
         /\ reservationsData[i].status = "active"
         /\ reservationsData[j].status = "active"
         /\ reservationsData[i].wheelchairId = reservationsData[j].wheelchairId)
        => ~RangesOverlap(reservationsData[i].startDate, reservationsData[i].endDate,
                          reservationsData[j].startDate, reservationsData[j].endDate)

\* C3: availability/booking agreement. For every stored unit u and every range
\* start < end, u is in checkAvailability(start, end).availableWheelchairs (the
\* gate of POST /reservations) exactly when no active reservation of u overlaps
\* the range, both ends inclusive.
NoActiveOverlap(u, s, e) ==
    ~\E i \in DOMAIN reservationsData :
        /\ reservationsData[i].wheelchairId = u
        /\ reservationsData[i].status = "active"
        /\ RangesOverlap(reservationsData[i].startDate, reservationsData[i].endDate, s, e)

C3_GateAgreesWithAvailability ==
    \A u \in DOMAIN wheelchairsData, s \in Dates, e \in Dates :
        s < e => ((u \in CheckAvailability(s, e).availableWheelchairs)
                    <=> NoActiveOverlap(u, s, e))

C3_Witness ==
    /\ resp = Response(OpGetAvailability, 200, NoError)
    /\ \E u \in DOMAIN wheelchairsData, s \in Dates, e \in Dates :
        /\ s < e
        /\ u \notin CheckAvailability(s, e).availableWheelchairs
        /\ \E s2 \in Dates, e2 \in Dates :
              s2 < e2 /\ u \in CheckAvailability(s2, e2).availableWheelchairs

\* C4: every accepted createReservation adds exactly 1 to the rental count of the
\* unit it references and leaves every other unit's count alone; in every state
\* a unit's rental count is the number of reservations created against it.
CountsMatchCreations ==
    \A u \in DOMAIN wheelchairsData :
        wheelchairsData[u].rentalCount = (IF u \in UnitInputs THEN inserted[u] ELSE 0)

C4_CounterCountsCreations ==
    [][ /\ CountsMatchCreations'
        /\ resp' = Response(OpPostReservation, 201, NoError) =>
             LET created == reservationsData'[reservationCurrentId] IN
             /\ DOMAIN wheelchairsData' = DOMAIN wheelchairsData
             /\ \A u \in DOMAIN wheelchairsData :
                  wheelchairsData'[u].rentalCount =
                     wheelchairsData[u].rentalCount
                       + (IF u = created.wheelchairId THEN 1 ELSE 0) ]_vars

C4_Witness ==
    /\ resp = Response(OpPostReservation, 201, NoError)
    /\ \E u \in DOMAIN wheelchairsData : wheelchairsData[u].rentalCount = 2
    /\ Cardinality(DOMAIN reservationsData) < 2

\* C8: POST /reservations checks client, unit, range, availability in this order
\* and answers with the error of the first check that fails.
C8_FirstFailureWins ==
    \A body \in CreateBodies :
        ReservationParseOk(body) =>
           LET client == MapHas(clientsData, body.clientId)
               unit == MapHas(wheelchairsData, body.wheelchairId)
               range == body.startDate < body.endDate
               free == NoActiveOverlap(body.wheelchairId, body.startDate, body.endDate)
               error == PostReservationError(body)
           IN /\ ~client => error = ErrClientNotFound
              /\ (client /\ ~unit) => error = ErrWheelchairNotFound
              /\ (client /\ unit /\ ~range) => error = ErrInvalidRange
              /\ (client /\ unit /\ range /\ ~free) => error = ErrNotAvailable
              /\ (client /\ unit /\ range /\ free) => error = NoError

C8_Witness ==
    /\ resp = Response(OpPostReservation, 400, ErrClientNotFound)
    /\ clientsData = << >>
    /\ reservationsData = << >>

\* C2: two concurrent creations for the same unit and overlapping ranges are
\* never both accepted: between a handler's availability check and its insert,
\* no other insert makes the checked range unavailable.
C2_CheckStillValidAtInsert ==
    \A h \in Handlers :
        (/\ handlers[h].pc = "checkAvailability"
         /\ handlers[h].body.wheelchairId \in handlers[h].available)
        => NoActiveOverlap(handlers[h].body.wheelchairId,
                           handlers[h].body.startDate, handlers[h].body.endDate)

\* C5: updateReservation, deleteReservation and a rejected createReservation
\* leave every unit's rental count as it was, and no operation lowers the
\* rental count of a unit.
RentalCounts(wd) == [u \in DOMAIN wd |-> wd[u].rentalCount]

C5_OnlyCreationCounts ==
    [][ /\ (\/ resp'.op \in {OpPutReservation, OpDeleteReservation}
            \/ (resp'.op = OpPostReservation /\ resp'.status = 400))
           => RentalCounts(wheelchairsData') = RentalCounts(wheelchairsData)
        /\ \A u \in (DOMAIN wheelchairsData) \cap (DOMAIN wheelchairsData') :
             wheelchairsData'[u].rentalCount >= wheelchairsData[u].rentalCount ]_vars

C5_Witness ==
    /\ resp = Response(OpPutReservation, 200, NoError)
    /\ \E i \in DOMAIN reservationsData :
         /\ reservationsData[i].wheelchairId = 2
         /\ MapHas(wheelchairsData, 2)
         /\ wheelchairsData[2].rentalCount = 0
         /\ wheelchairsData[1].rentalCount = 1

\* C6: the insert of a reservation and the increment of its unit's rental count
\* happen together: no state holds a created reservation whose unit was not
\* counted, nor a count without its reservation.
C6_InsertAndIncrementTogether ==
    \A u \in UnitInputs : inserted[u] = incremented[u]

\* C7: a rejected createReservation or updateReservation (validation error, not
\* found, invalid range, conflict) leaves the whole store unchanged: units,
\* clients, reservations, rental counts and the identifier sequences.
C7_RejectionChangesNothing ==
    [][ (/\ resp'.op \in {OpPostReservation, OpPutReservation}
         /\ resp'.status \in {400, 404})
        => UNCHANGED store ]_vars

C7_Witness ==
    /\ resp = Response(OpPutReservation, 400, ErrNotAvailable)
    /\ Cardinality(DOMAIN reservationsData) = 2

\* C9: the overlap is inclusive at the boundary. With an active reservation
\* [a, b] on a unit, a creation on that unit starting on day b or ending on day
\* a is rejected as a conflict; one starting on day b + 1 or ending on day
\* a - 1 is accepted when no other active reservation of the unit overlaps it.
C9_BoundaryDayConflicts ==
    \A body \in CreateBodies, i \in DOMAIN reservationsData :
        LET r == reservationsData[i]
            others == {j \in DOMAIN reservationsData :
                         /\ j # i
                         /\ reservationsData[j].wheelchairId = body.wheelchairId
                         /\ reservationsData[j].status = "active"
                         /\ RangesOverlap(reservationsData[j].startDate,
                                          reservationsData[j].endDate,
                                          body.startDate, body.endDate)}
        IN (/\ ReservationParseOk(body)
            /\ MapHas(clientsData, body.clientId)
            /\ MapHas(wheelchairsData, body.wheelchairId)
            /\ body.startDate < body.endDate
            /\ r.status = "active"
            /\ r.wheelchairId = body.wheelchairId)
           => /\ (body.startDate = r.endDate \/ body.endDate = r.startDate)
                    => PostReservationError(body) = ErrNotAvailable
              /\ ((body.startDate = r.endDate + 1 \/ body.endDate = r.startDate - 1)
                     /\ others = {})
                    => PostReservationError(body) = NoError

C9_Witness ==
    /\ resp = Response(OpPostReservation, 201, NoError)
    /\ \E i \in DOMAIN reservationsData, j \in DOMAIN reservationsData :
         /\ reservationsData[i].wheelchairId = reservationsData[j].wheelchairId
         /\ reservationsData[i].status = "active"
         /\ reservationsData[j].status = "active"
         /\ reservationsData[j].startDate = reservationsData[i].endDate + 1

\* C10: a completed or cancelled reservation never blocks booking. A unit with no
\* active reservation overlapping a range is in checkAvailability's available
\* units whatever other reservations it has, and a creation or an update is
\* rejected as a conflict only when an active reservation of the unit overlaps
\* the requested range.
C10_OnlyActiveBlocks ==
    /\ \A u \in DOMAIN wheelchairsData, s \in Dates, e \in Dates :
         (s < e /\ NoActiveOverlap(u, s, e))
            => u \in CheckAvailability(s, e).availableWheelchairs
    /\ \A body \in StoredCreateBodies :
         PostReservationError(body) = ErrNotAvailable
            => ~NoActiveOverlap(body.wheelchairId, body.startDate, body.endDate)
    /\ \A id \in ReservationInputs, body \in StoredUpdateBodies :
         PutReservationError(id, body) = ErrNotAvailable
            => \E i \in (DOMAIN reservationsData) \ {id} :
                  /\ reservationsData[i].status = "active"
                  /\ reservationsData[i].wheelchairId =
                        EffectiveWheelchair(PartialParse(body), reservationsData[id])
                  /\ RangesOverlap(reservationsData[i].startDate, reservationsData[i].endDate,
                                   EffectiveStart(PartialParse(body), reservationsData[id]),
                                   EffectiveEnd(PartialParse(body), reservationsData[id]))

C10_Witness ==
    /\ resp = Response(OpPostReservation, 201, NoError)
    /\ \E i \in DOMAIN reservationsData, j \in DOMAIN reservationsData :
         /\ reservationsData[i].status \in {"completed", "cancelled"}
         /\ reservationsData[j].status = "active"
         /\ reservationsData[i].wheelchairId = reservationsData[j].wheelchairId
         /\ RangesOverlap(reservationsData[i].startDate, reservationsData[i].endDate,
                          reservationsData[j].startDate, reservationsData[j].endDate)

\* C11: cancelling frees the unit. When PUT /reservations/:id with the body
\* {status: cancelled} is accepted for an active reservation, the stored
\* reservation has status cancelled afterwards, and every range in which its
\* unit was blocked by that reservation only lists the unit as available.
CancelPatch == Body(Absent, Absent, Absent, Absent, NoNotes, "cancelled")

C11_CancellingFreesUnit ==
    [][ \A id \in ReservationInputs :
          (/\ MapHas(reservationsData, id)
           /\ reservationsData[id].status = "active"
           /\ PutReservation(id, CancelPatch)
           /\ resp'.status = 200)
          => /\ reservationsData'[id].status = "cancelled"
             /\ \A s \in Dates, e \in Dates :
                  (/\ s < e
                   /\ MapHas(wheelchairsData, reservationsData[id].wheelchairId)
                   /\ ~\E j \in (DOMAIN reservationsData) \ {id} :
                         /\ reservationsData[j].wheelchairId = reservationsData[id].wheelchairId
                         /\ reservationsData[j].status = "active"
                         /\ RangesOverlap(reservationsData[j].startDate,
                                          reservationsData[j].endDate, s, e))
                  => reservationsData[id].wheelchairId
                        \in CheckAvailability(s, e)'.availableWheelchairs ]_vars

\* C12: self-exclusion on edit. A PUT /reservations/:id of an existing
\* reservation whose body carries notes only (no unit, no start, no end) is
\* never answered with the availability conflict, whatever the store holds.
NotesOnlyPatches == {Body(Absent, Absent, Absent, Absent, n, NoStatus) : n \in {"", "n"}}

C12_NotesOnlyNeverConflicts ==
    \A id \in DOMAIN reservationsData, body \in NotesOnlyPatches :
        PutReservationError(id, body) # ErrNotAvailable

C12_Witness ==
    /\ resp = Response(OpPutReservation, 200, NoError)
    /\ \E i \in DOMAIN reservationsData :
         /\ reservationsData[i].notes = "n"
         /\ reservationsData[i].status = "active"

\* C13: every stored reservation has its start strictly before its end. A
\* creation with start >= end is rejected, and an update whose body carries a
\* start or an end, whatever else it carries (a status included), is rejected
\* as an invalid range when the effective start is not before the effective end.
C13_StartBeforeEnd ==
    /\ \A i \in DOMAIN reservationsData :
         reservationsData[i].startDate < reservationsData[i].endDate
    /\ \A body \in CreateBodies :
         (ReservationParseOk(body) /\ body.startDate >= body.endDate)
            => PostReservationError(body) # NoError
    /\ \A id \in DOMAIN reservationsData, body \in UpdateBodies :
         LET start == IF body.startDate # Absent THEN body.startDate
                      ELSE reservationsData[id].startDate
             end == IF body.endDate # Absent THEN body.endDate
                    ELSE reservationsData[id].endDate
         IN (/\ PartialParseOk(body)
             /\ (body.startDate # Absent \/ body.endDate # Absent)
             /\ start >= end)
            => PutReservationError(id, body) = ErrInvalidRange

C13_Witness ==
    /\ resp = Response(OpPutReservation, 400, ErrInvalidRange)
    /\ \E i \in DOMAIN reservationsData : reservationsData[i].endDate < MaxDate

\* C14: a reservation is stored with status active when it is created, whatever
\* the request carries, and the status of every stored reservation is one of
\* active, completed, cancelled.
C14_StatusInClosedSet ==
    [][ /\ \A i \in DOMAIN reservationsData' :
             reservationsData'[i].status \in {"active", "completed", "cancelled"}
        /\ resp' = Response(OpPostReservation, 201, NoError)
             => /\ reservationCurrentId \in DOMAIN reservationsData'
                /\ reservationsData'[reservationCurrentId].status = "active" ]_vars

C14_Witness ==
    /\ resp = Response(OpPostReservation, 201, NoError)
    /\ Cardinality(DOMAIN reservationsData) = 2
    /\ \A i \in DOMAIN reservationsData :
         /\ reservationsData[i].status = "active"
         /\ reservationsData[i].startDate = 1
         /\ reservationsData[i].endDate = MaxDate

\* C15: identifiers are unique and never reused. For wheelchairs, clients and
\* reservations alike, a step that stores a new entity gives it the value of the
\* type's sequence, the sequence then moves up by one and never moves down, and
\* every identifier in use or given out before (deleted ones included) is below
\* the sequence: the identifiers assigned are strictly increasing.
FreshIdentifiers(data, dataNext, currentId, currentIdNext) ==
    /\ currentIdNext >= currentId
    /\ \A i \in DOMAIN dataNext : i < currentIdNext
    /\ (DOMAIN dataNext) \ (DOMAIN data) \subseteq {currentId}
    /\ (DOMAIN dataNext) \ (DOMAIN data) # {} => currentIdNext = currentId + 1

C16_RegisterDateFixed ==
    [][ \A c \in (DOMAIN clientsData) \cap (DOMAIN clientsData') :
          clientsData'[c].registerDate = clientsData[c].registerDate ]_vars

\* C17: getDashboardStats(now).activeReservations is the number of stored
\* reservations with status active whose end date is the day of `now` or a later
\* day (dates are calendar dates): one ending on the current day is counted, one
\* ending on an earlier day is not, whatever its status.
DayOf(now) == now \div TicksPerDay

C17_ActiveCountByCalendarDay ==
    \A now \in Nows :
        GetDashboardStats(now).activeReservations =
            Cardinality({i \in DOMAIN reservationsData :
                            /\ reservationsData[i].status = "active"
                            /\ reservationsData[i].endDate >= DayOf(now)})

\* C18: getDashboardStats(now) answers totalUnits = the number of stored units,
\* totalClients = the number of stored clients, and availableUnits = totalUnits
\* minus the number of distinct unit identifiers that the active reservations
\* with end >= now refer to: several such reservations on one unit take one unit
\* off, and with exactly one such reservation availableUnits is totalUnits - 1
\* and activeReservations is 1.
ActiveUnexpired(now) ==
    {i \in DOMAIN reservationsData :
        reservationsData[i].status = "active" /\ Instant(reservationsData[i].endDate) >= now}

C18_StatsCountDistinctUnits ==
    \A now \in Nows :
        LET stats == GetDashboardStats(now)
            busy == {u \in UnitInputs \cup DOMAIN wheelchairsData :
                        \E i \in ActiveUnexpired(now) : reservationsData[i].wheelchairId = u}
        IN /\ stats.totalWheelchairs = Cardinality(DOMAIN wheelchairsData)
           /\ stats.totalClients = Cardinality(DOMAIN clientsData)
           /\ stats.availableWheelchairs = stats.totalWheelchairs - Cardinality(busy)
           /\ Cardinality(ActiveUnexpired(now)) = 1
                => /\ stats.availableWheelchairs = stats.totalWheelchairs - 1
                   /\ stats.activeReservations = 1

C18_Witness ==
    /\ resp = Response(OpGetStats, 200, NoError)
    /\ DOMAIN reservationsData = {1, 2}
    /\ reservationsData[1].wheelchairId = 1
    /\ reservationsData[2].wheelchairId = 1
    /\ Cardinality(ActiveUnexpired(Instant(1))) = 2
    /\ GetDashboardStats(Instant(1)).availableWheelchairs = InitialWheelchairs - 1

\* C19: checkAvailability(start, end) lists exactly the stored units that no
\* active reservation overlapping [start, end] (both ends inclusive) refers to,
\* expired or not, and its available flag is true exactly when the list is not
\* empty.
C19_AvailabilityResult ==
    \A s \in Dates, e \in Dates :
        LET result == CheckAvailability(s, e)
            free == {u \in DOMAIN wheelchairsData : NoActiveOverlap(u, s, e)}
        IN /\ result.availableWheelchairs = free
           /\ result.available <=> (free # {})

C19_Witness ==
    /\ resp = Response(OpGetAvailability, 200, NoError)
    /\ DOMAIN wheelchairsData = {1, 2}
    /\ ~CheckAvailability(1, 2).available
    /\ CheckAvailability(MaxDate - 1, MaxDate).availableWheelchairs = {2}

\* C20: checkAvailability and getDashboardStats are read-only and deterministic.
\* A GET /availability or GET /stats leaves units, clients, reservations, rental
\* counts and identifier sequences as they were, and a checkAvailability after
\* the query answers for every range what one before it answers.
C20_QueriesReadOnly ==
    [][ resp'.op \in {OpGetAvailability, OpGetStats}
          => /\ UNCHANGED store
             /\ \A s \in Dates, e \in Dates :
                   CheckAvailability(s, e)' = CheckAvailability(s, e) ]_vars

C20_Witness ==
    /\ resp = Response(OpGetStats, 200, NoError)
    /\ \E i \in DOMAIN reservationsData :
         /\ reservationsData[i].status = "active"
         /\ reservationsData[i].endDate < MaxDate
         /\ MapHas(wheelchairsData, reservationsData[i].wheelchairId)
         /\ wheelchairsData[reservationsData[i].wheelchairId].rentalCount = 1
         /\ Cardinality(DOMAIN wheelchairsData) < InitialWheelchairs

\* C21: self-exclusion on a change of dates. A PUT /reservations/:id that moves
\* the start and/or the end of an active reservation to a valid range that
\* overlaps the reservation's own current range, and no other active
\* reservation of its unit, is accepted.
OthersOverlap(id, unit, s, e) ==
    \E j \in (DOMAIN reservationsData) \ {id} :
        /\ reservationsData[j].wheelchairId = unit
        /\ reservationsData[j].status = "active"
        /\ RangesOverlap(reservationsData[j].startDate, reservationsData[j].endDate, s, e)

C21_OwnRangeDoesNotConflict ==
    \A id \in DOMAIN reservationsData, body \in UpdateBodies :
        LET r == reservationsData[id]
            s == IF body.startDate # Absent THEN body.startDate ELSE r.startDate
            e == IF body.endDate # Absent THEN body.endDate ELSE r.endDate
        IN (/\ PartialParseOk(body)
            /\ body.wheelchairId = Absent
            /\ body.status = NoStatus
            /\ (body.startDate # Absent \/ body.endDate # Absent)
            /\ r.status = "active"
            /\ s < e
            /\ RangesOverlap(s, e, r.startDate, r.endDate)
            /\ ~OthersOverlap(id, r.wheelchairId, s, e))
           => PutReservationError(id, body) = NoError

C21_Witness ==
    /\ resp = Response(OpPutReservation, 200, NoError)
    /\ DOMAIN reservationsData = {1}
    /\ reservationsData[1].status = "active"
    /\ wheelchairsData[1].rentalCount = 1
    /\ reservationsData[1].wheelchairId = 1

\* C22: for a PUT /reservations/:id whose body touches the unit, the start or
\* the end and does not set the status to cancelled, the overlap check uses the
\* effective values (the patched value, else the stored one): with a valid
\* effective range the request is rejected as a conflict exactly when another
\* active reservation of the effective unit overlaps the effective range, so a
\* patch of the unit alone is checked against the new unit and the stored dates.
C22_ConflictOnEffectiveValues ==
    \A id \in DOMAIN reservationsData, body \in UpdateBodies :
        LET r == reservationsData[id]
            unit == IF body.wheelchairId # Absent THEN body.wheelchairId ELSE r.wheelchairId
            s == IF body.startDate # Absent THEN body.startDate ELSE r.startDate
            e == IF body.endDate # Absent THEN body.endDate ELSE r.endDate
        IN (/\ PartialParseOk(body)
            /\ (body.wheelchairId # Absent \/ body.startDate # Absent \/ body.endDate # Absent)
            /\ body.status # "cancelled"
            /\ s < e)
           => (PutReservationError(id, body) = ErrNotAvailable
                 <=> OthersOverlap(id, unit, s, e))

\* C23: a PUT /reservations/:id whose body sets the status to cancelled is never
\* rejected as a conflict, also when the body moves the unit, the start or the
\* end onto another active reservation: availability is not evaluated for it.
C23_CancellingNeverConflicts ==
    \A id \in DOMAIN reservationsData, body \in UpdateBodies :
        (PartialParseOk(body) /\ body.status = "cancelled")
            => PutReservationError(id, body) # ErrNotAvailable

\* C24: a PUT or a DELETE of /reservations/:id with an identifier that no stored
\* reservation has is answered not found (404), for every accepted patch body
\* whether or not it touches the unit, the start or the end; it creates no
\* reservation and leaves the store unchanged.
C24_UnknownIdIsNotFound ==
    /\ [](\A id \in ReservationInputs \ DOMAIN reservationsData, body \in UpdateBodies :
             PartialParseOk(body) => PutReservationError(id, body) = ErrReservationNotFound)
    /\ [][ /\ \A id \in ReservationInputs \ DOMAIN reservationsData :
                DeleteReservation(id)
                   => resp' = Response(OpDeleteReservation, 404, ErrReservationNotFound)
           /\ (resp'.op \in {OpPutReservation, OpDeleteReservation} /\ resp'.status = 404)
                => UNCHANGED store ]_vars

C24_Witness ==
    /\ resp = Response(OpPutReservation, 404, ErrReservationNotFound)
    /\ DOMAIN reservationsData = {2}

\* C25: an update that moves a reservation onto a unit and a creation (or another
\* update) aiming at the same unit with an overlapping range, both in flight and
\* interleaved at their awaits, are never both accepted: no state holds two
\* overlapping active reservations of one stored unit.
C25_NoDoubleBookingWhenConcurrent ==
    \A u \in DOMAIN wheelchairsData :
        \A i \in DOMAIN reservationsData, j \in DOMAIN reservationsData :
            (/\ i < j
             /\ reservationsData[i].wheelchairId = u
             /\ reservationsData[j].wheelchairId = u
             /\ reservationsData[i].status = "active"
             /\ reservationsData[j].status = "active")
            => \/ reservationsData[i].endDate < reservationsData[j].startDate
               \/ reservationsData[j].endDate < reservationsData[i].startDate

\* C26 (as stated): where every reservation refers to a stored unit,
\* getDashboardStats(now).availableUnits is the number of units that
\* checkAvailability(now, now) reports available, so a unit whose only active
\* reservations lie in the future counts as available.
EveryReservationHasItsUnit ==
    \A i \in DOMAIN reservationsData :
        reservationsData[i].wheelchairId \in DOMAIN wheelchairsData

LastInstant == Instant(MaxDate)

C27_DeleteRemovesUnconditionally ==
    [][ \A id \in DOMAIN reservationsData :
          DeleteReservation(id)
            => /\ resp' = Response(OpDeleteReservation, 204, NoError)
               /\ DOMAIN reservationsData' = (DOMAIN reservationsData) \ {id}
               /\ \A j \in (DOMAIN reservationsData) \ {id} :
                     reservationsData'[j] = reservationsData[j]
               /\ UNCHANGED <<wheelchairsData, clientsData, wheelchairCurrentId,
                              clientCurrentId, reservationCurrentId>>
               /\ \A s \in Dates, e \in Dates :
                     CheckAvailability(s, e)'.availableWheelchairs =
                        {u \in DOMAIN wheelchairsData : ~OthersOverlap(id, u, s, e)}
               /\ \A body \in StoredCreateBodies :
                     (PostReservationError(body)' = ErrNotAvailable)
                        => OthersOverlap(id, body.wheelchairId, body.startDate, body.endDate)
               /\ \A k \in (DOMAIN reservationsData) \ {id}, body \in StoredUpdateBodies :
                     (PutReservationError(k, body)' = ErrNotAvailable)
                        => \E j \in (DOMAIN reservationsData) \ {id, k} :
                              /\ reservationsData[j].status = "active"
                              /\ reservationsData[j].wheelchairId =
                                    EffectiveWheelchair(PartialParse(body), reservationsData[k])
                              /\ RangesOverlap(
                                    reservationsData[j].startDate, reservationsData[j].endDate,
                                    EffectiveStart(PartialParse(body), reservationsData[k]),
                                    EffectiveEnd(PartialParse(body), reservationsData[k])) ]_vars

C27_Witness ==
    /\ resp = Response(OpDeleteReservation, 204, NoError)
    /\ DOMAIN reservationsData = {2}
    /\ reservationsData[2].wheelchairId = 2
    /\ reservationsData[2].status = "active"
    /\ 1 \in CheckAvailability(1, MaxDate).availableWheelchairs

\* C28: the status of a stored reservation changes only from active to completed
\* or from active to cancelled: no request changes a completed or cancelled
\* reservation back to active or to the other of the two.
C28_StatusTransitions ==
    [][ \A i \in (DOMAIN reservationsData) \cap (DOMAIN reservationsData') :
          reservationsData'[i].status # reservationsData[i].status
            => /\ reservationsData[i].status = "active"
               /\ reservationsData'[i].status \in {"completed", "cancelled"} ]_vars

C28_Witness ==
    /\ resp = Response(OpPutReservation, 200, NoError)
    /\ DOMAIN reservationsData = {1}
    /\ reservationsData[1].status \in {"completed", "cancelled"}
    /\ reservationsData[1].wheelchairId = 1

\* C29: with no unit and no client removed, every stored reservation refers to a
\* stored client and a stored unit after any sequence of creations and updates.
C29_ReferencesResolve ==
    \A i \in DOMAIN reservationsData :
        /\ reservationsData[i].clientId \in DOMAIN clientsData
        /\ reservationsData[i].wheelchairId \in DOMAIN wheelchairsData

\* C30: in every state, also after the removal of units that reservations still
\* refer to, getDashboardStats answers 0 <= availableUnits <= totalUnits, and
\* availableUnits is the number of stored units without an active unexpired
\* reservation.
C30_AvailableCountsStoredUnits ==
    \A now \in Nows :
        LET stats == GetDashboardStats(now)
            free == {u \in DOMAIN wheelchairsData :
                        \A i \in ActiveUnexpired(now) : reservationsData[i].wheelchairId # u}
        IN /\ 0 <= stats.availableWheelchairs
           /\ stats.availableWheelchairs <= stats.totalWheelchairs
           /\ stats.availableWheelchairs = Cardinality(free)

====
